---- MODULE Spec2Model ----
(***************************************************************************)
(* Model of gen.3d/scripts/1.image2mesh.py: the resumable image -> mesh     *)
(* batch (get_image_files, ResumableState, Image2MeshGenerator).            *)
(*                                                                         *)
(* Strings are sequences of one-character strings, so that Path.stem,      *)
(* Path.suffix, str.lower, sorted() and the prefix tests are computed and   *)
(* not assumed.  A path inside the output directory is modelled by its     *)
(* file name; the empty path is the empty sequence.                        *)
(***************************************************************************)
EXTENDS Integers, Sequences, FiniteSets, TLC

(***************************************************************************)
(* Characters and strings                                                  *)
(***************************************************************************)

\* The characters used, in code point order (what Python's str comparison uses).
CharOrder ==
  << "-", ".", "0", "1", "2", "3", "4", "5", "6", "7", "8", "9",
     "A", "B", "C", "D", "E", "F", "G", "H", "I", "J", "K", "L", "M",
     "N", "O", "P", "Q", "R", "S", "T", "U", "V", "W", "X", "Y", "Z",
     "_",
     "a", "b", "c", "d", "e", "f", "g", "h", "i", "j", "k", "l", "m",
     "n", "o", "p", "q", "r", "s", "t", "u", "v", "w", "x", "y", "z" >>

UpperChars ==
  << "A", "B", "C", "D", "E", "F", "G", "H", "I", "J", "K", "L", "M",
     "N", "O", "P", "Q", "R", "S", "T", "U", "V", "W", "X", "Y", "Z" >>

LowerChars ==
  << "a", "b", "c", "d", "e", "f", "g", "h", "i", "j", "k", "l", "m",
     "n", "o", "p", "q", "r", "s", "t", "u", "v", "w", "x", "y", "z" >>

Ord(c) == CHOOSE i \in 1..Len(CharOrder) : CharOrder[i] = c

\* str.lower() on one character
LowerChar(c) ==
  IF \E i \in 1..Len(UpperChars) : UpperChars[i] = c
    THEN LowerChars[CHOOSE i \in 1..Len(UpperChars) : UpperChars[i] = c]
    ELSE c

\* str.lower()
StrLower(s) == [i \in 1..Len(s) |-> LowerChar(s[i])]

\* a < b for Python strings: lexicographic on code points
StrLess(a, b) ==
  \E i \in 1..(Len(b)) :
    /\ \A j \in 1..(i - 1) : j <= Len(a) /\ a[j] = b[j]
    /\ \/ i = Len(a) + 1
       \/ i <= Len(a) /\ Ord(a[i]) < Ord(b[i])

\* str.startswith
StartsWith(s, p) == Len(p) <= Len(s) /\ SubSeq(s, 1, Len(p)) = p

\* str.endswith
EndsWith(s, p) ==
  Len(p) <= Len(s) /\ SubSeq(s, Len(s) - Len(p) + 1, Len(s)) = p

\* str.rfind(".") (1-based, 0 when there is none)
RFindDot(s) ==
  IF \E i \in 1..Len(s) : s[i] = "."
    THEN CHOOSE i \in 1..Len(s) : s[i] = "." /\ \A j \in (i + 1)..Len(s) : s[j] # "."
    ELSE 0

\* pathlib: PurePath.suffix
PathSuffix(name) ==
  LET i == RFindDot(name)
  IN IF 1 < i /\ i < Len(name) THEN SubSeq(name, i, Len(name)) ELSE << >>

\* pathlib: PurePath.stem
PathStem(name) ==
  LET i == RFindDot(name)
  IN IF 1 < i /\ i < Len(name) THEN SubSeq(name, 1, i - 1) ELSE name

\* sorted() of a set of distinct strings
RECURSIVE SortedNames(_)
SortedNames(S) ==
  IF S = {} THEN << >>
  ELSE LET m == CHOOSE x \in S : \A y \in S \ {x} : StrLess(x, y)
       IN << m >> \o SortedNames(S \ {m})

\* the elements of a sequence
Range(s) == {s[i] : i \in 1..Len(s)}

\* the sequence without the elements that fail Keep
RECURSIVE SelectSeqBy(_, _)
SelectSeqBy(s, keep) ==
  IF s = << >> THEN << >>
  ELSE (IF Head(s) \in keep THEN << Head(s) >> ELSE << >>)
         \o SelectSeqBy(Tail(s), keep)


(***************************************************************************)
(* Item enumerator: get_image_files                                        *)
(***************************************************************************)

\* IMAGE_EXTENSIONS: supported image extensions (lowercase)
IMAGE_EXTENSIONS ==
  { << ".", "p", "n", "g" >>, << ".", "j", "p", "g" >>,
    << ".", "j", "p", "e", "g" >>, << ".", "w", "e", "b", "p" >>,
    << ".", "b", "m", "p" >>, << ".", "t", "g", "a" >> }

\* A directory that does not exist (os.path.isdir is false)
NoDir == [exists |-> FALSE, files |-> {}, dirs |-> {}]

\* os.listdir(input_dir): regular files and sub-directories alike
ListDir(d) == d.files \cup d.dirs

\* get_image_files(input_dir): [(full_path, stem), ...] in sorted(os.listdir) order
GetImageFiles(d) ==
  IF ~d.exists THEN << >>
  ELSE LET names == SortedNames(ListDir(d))
           keep == {n \in d.files :
                      StrLower(PathSuffix(n)) \in IMAGE_EXTENSIONS}
           sel == SelectSeqBy(names, keep)
       IN [i \in 1..Len(sel) |-> [path |-> sel[i], stem |-> PathStem(sel[i])]]

\* the stems of an enumeration, in order
StemsOf(images) == [i \in 1..Len(images) |-> images[i].stem]

(***************************************************************************)
(* Checkpoint store: ResumableState                                        *)
(***************************************************************************)

\* {"meshes": {"completed": [], "results": {}}}
EmptyState == [meshes |-> [completed |-> << >>, results |-> << >>]]

\* The checkpoint file: absent, or a text that json.load parses to `value`,
\* or a text json.load rejects (a truncated or damaged document).
NoFile == [exists |-> FALSE, parses |-> FALSE, value |-> EmptyState]
CorruptFile == [exists |-> TRUE, parses |-> FALSE, value |-> EmptyState]
JsonFile(st) == [exists |-> TRUE, parses |-> TRUE, value |-> st]

\* A parseable JSON document without the "meshes" key
WrongShapeDoc == [items |-> << >>]

\* self.state["meshes"] does not raise KeyError
WellShaped(st) == "meshes" \in DOMAIN st

\* os.path.exists(path) for a path of the output directory
PathExists(path, files) == path \in files

\* dict.get(key, default) on results
ResultsGet(st, stem) ==
  IF stem \in DOMAIN st.meshes.results
    THEN st.meshes.results[stem] ELSE [path |-> << >>]

\* ResumableState._load_state
LoadState(file) ==
  IF file.exists /\ file.parses THEN file.value ELSE EmptyState

\* ResumableState.__init__: the file after the optional unlink, and the state loaded
Construct(file, force_start, unlink_ok) ==
  LET f == IF force_start /\ file.exists /\ unlink_ok THEN NoFile ELSE file
  IN [file |-> f, state |-> LoadState(f)]

\* mutant: the entry alone decides, the file is not looked at
IsMeshCompleteNoExists(st, stem, files) ==
  stem \in DOMAIN st.meshes.results

\* ResumableState.is_mesh_complete
IsMeshComplete(st, stem, files) ==
  IF stem \notin DOMAIN st.meshes.results THEN FALSE
  ELSE LET path == st.meshes.results[stem].path
       IN path # << >> /\ PathExists(path, files)

\* ResumableState._save_state: "ok", or open() fails ("openfail": file untouched),
\* or the dump stops after open() truncated the file ("writefail")
SaveState(file, st, outcome) ==
  CASE outcome = "ok" -> JsonFile(st)
    [] outcome = "openfail" -> file
    [] OTHER -> CorruptFile

\* dict upsert
DictSet(f, k, v) == [x \in DOMAIN f \cup {k} |-> IF x = k THEN v ELSE f[x]]

\* dict delete
DictDel(f, k) == [x \in DOMAIN f \ {k} |-> f[x]]

\* list.remove: the first occurrence
RECURSIVE ListRemove(_, _)
ListRemove(s, x) ==
  IF s = << >> THEN << >>
  ELSE IF Head(s) = x THEN Tail(s)
  ELSE << Head(s) >> \o ListRemove(Tail(s), x)

\* a set_mesh_result that appends the identifier whether or not it is listed
SetMeshResultAppends(st, stem, path) ==
  [meshes |->
     [completed |-> Append(st.meshes.completed, stem),
      results |-> DictSet(st.meshes.results, stem, [path |-> path])]]

\* ResumableState.set_mesh_result, the in-memory part
SetMeshResult(st, stem, path) ==
  [meshes |->
     [completed |-> IF stem \in Range(st.meshes.completed)
                      THEN st.meshes.completed
                      ELSE Append(st.meshes.completed, stem),
      results |-> DictSet(st.meshes.results, stem, [path |-> path])]]

\* ResumableState.validate_and_cleanup_results, the loop over list(completed):
\* acc = [state, removed]
RECURSIVE CleanupLoop(_, _, _)
CleanupLoop(todo, acc, files) ==
  IF todo = << >> THEN acc
  ELSE LET stem == Head(todo)
           st == acc.state
           path == ResultsGet(st, stem).path
       IN IF path = << >> \/ ~PathExists(path, files)
            THEN CleanupLoop(Tail(todo),
                   [state |->
                      [meshes |->
                         [completed |-> ListRemove(st.meshes.completed, stem),
                          results |-> DictDel(st.meshes.results, stem)]],
                    removed |-> acc.removed + 1],
                   files)
            ELSE CleanupLoop(Tail(todo), acc, files)

\* mutant: nothing is evicted
ValidateAndCleanupNoop(st, files) == [state |-> st, removed |-> 0]

\* ResumableState.validate_and_cleanup_results: the new state and the count returned
ValidateAndCleanup(st, files) ==
  CleanupLoop(st.meshes.completed, [state |-> st, removed |-> 0], files)

(***************************************************************************)
(* Artifact harvester                                                      *)
(* The backend output area is the sequence of its file names from the      *)
(* oldest modification time to the newest (mtime = position).              *)
(***************************************************************************)

Digits == {"0", "1", "2", "3", "4", "5", "6", "7", "8", "9"}

GlbExt == << ".", "g", "l", "b" >>

Textured == << "T", "e", "x", "t", "u", "r", "e", "d" >>

\* str.rstrip(chars)
RECURSIVE RStrip(_, _)
RStrip(s, chars) ==
  IF s # << >> /\ s[Len(s)] \in chars
    THEN RStrip(SubSeq(s, 1, Len(s) - 1), chars) ELSE s

\* str.lstrip(chars)
RECURSIVE LStrip(_, _)
LStrip(s, chars) ==
  IF s # << >> /\ Head(s) \in chars THEN LStrip(Tail(s), chars) ELSE s

\* str.replace(".glb", "")
RECURSIVE ReplaceGlb(_)
ReplaceGlb(s) ==
  IF s = << >> THEN << >>
  ELSE IF StartsWith(s, GlbExt) THEN ReplaceGlb(SubSeq(s, 5, Len(s)))
  ELSE << Head(s) >> \o ReplaceGlb(Tail(s))

\* while base and base[-1].isdigit(): base = base.rstrip(digits).rstrip("_")
RECURSIVE StripCounters(_)
StripCounters(base) ==
  IF base # << >> /\ base[Len(base)] \in Digits
    THEN StripCounters(RStrip(RStrip(base, Digits), {"_"}))
    ELSE base

\* the clean base of a backend file name: model_Textured_00001_.glb -> model_Textured
CleanBase(name) == StripCounters(RStrip(ReplaceGlb(name), {"_"}))

\* reversed sequence
Reverse(s) == [i \in 1..Len(s) |-> s[Len(s) + 1 - i]]

\* the prefix test of _list_glbs_with_prefix
MatchesPrefix(name, prefix) ==
  StartsWith(name, prefix) \/ StartsWith(name, prefix \o << "_" >>)

\* Image2MeshGenerator._list_glbs_with_prefix: names newest first;
\* `gone` are the files whose getmtime raises OSError
ListGlbsWithPrefix(comfy, prefix, gone) ==
  LET keep == {n \in Range(comfy) :
                 /\ EndsWith(StrLower(n), GlbExt)
                 /\ MatchesPrefix(n, prefix)
                 /\ n \notin gone}
  IN SelectSeqBy(Reverse(comfy), keep)

\* the logical variant of a clean base for a stem
VariantOf(base, stem) ==
  LET rest == LStrip(SubSeq(base, Len(stem) + 1, Len(base)), {"_"})
  IN IF rest = << >> THEN Textured ELSE rest

\* the canonical output name of a variant
OutName(stem, suffix) ==
  IF suffix = Textured THEN stem \o GlbExt
  ELSE stem \o << "_" >> \o suffix \o GlbExt

\* a copy loop that reports a variant as the result although its copy failed
RECURSIVE CopyLoopReportsFailedCopy(_, _, _, _)
CopyLoopReportsFailedCopy(cands, stem, acc, failing) ==
  IF cands = << >> THEN acc
  ELSE LET name == Head(cands)
           base == CleanBase(name)
           suffix == VariantOf(base, stem)
           out_name == OutName(stem, suffix)
       IN IF ~StartsWith(base, stem) \/ suffix \in acc.seen
            THEN CopyLoopReportsFailedCopy(Tail(cands), stem, acc, failing)
          ELSE IF name \in failing
            THEN CopyLoopReportsFailedCopy(Tail(cands), stem,
                   [acc EXCEPT !.seen = @ \cup {suffix},
                               !.primary = IF suffix = Textured \/ @ = << >>
                                             THEN out_name ELSE @],
                   failing)
          ELSE CopyLoopReportsFailedCopy(Tail(cands), stem,
                 [seen |-> acc.seen \cup {suffix},
                  primary |-> IF suffix = Textured \/ acc.primary = << >>
                                THEN out_name ELSE acc.primary,
                  files |-> acc.files \cup {out_name},
                  written |-> acc.written \cup {out_name},
                  copied |-> acc.copied \cup {name}],
                 failing)

\* a copy loop whose result is the first variant copied, whichever it is
RECURSIVE CopyLoopFirstIsPrimary(_, _, _, _)
CopyLoopFirstIsPrimary(cands, stem, acc, failing) ==
  IF cands = << >> THEN acc
  ELSE LET name == Head(cands)
           base == CleanBase(name)
           suffix == VariantOf(base, stem)
           out_name == OutName(stem, suffix)
       IN IF ~StartsWith(base, stem) \/ suffix \in acc.seen
            THEN CopyLoopFirstIsPrimary(Tail(cands), stem, acc, failing)
          ELSE IF name \in failing
            THEN CopyLoopFirstIsPrimary(Tail(cands), stem,
                          [acc EXCEPT !.seen = @ \cup {suffix}], failing)
          ELSE CopyLoopFirstIsPrimary(Tail(cands), stem,
                 [seen |-> acc.seen \cup {suffix},
                  primary |-> IF acc.primary = << >>
                                THEN out_name ELSE acc.primary,
                  files |-> acc.files \cup {out_name},
                  written |-> acc.written \cup {out_name},
                  copied |-> acc.copied \cup {name}],
                 failing)

\* a copy loop that copies every candidate, older exports of a variant included
RECURSIVE CopyLoopEveryFile(_, _, _, _)
CopyLoopEveryFile(cands, stem, acc, failing) ==
  IF cands = << >> THEN acc
  ELSE LET name == Head(cands)
           base == CleanBase(name)
           suffix == VariantOf(base, stem)
           out_name == OutName(stem, suffix)
       IN IF ~StartsWith(base, stem)
            THEN CopyLoopEveryFile(Tail(cands), stem, acc, failing)
          ELSE IF name \in failing
            THEN CopyLoopEveryFile(Tail(cands), stem, acc, failing)
          ELSE CopyLoopEveryFile(Tail(cands), stem,
                 [seen |-> acc.seen \cup {suffix},
                  primary |-> IF suffix = Textured \/ acc.primary = << >>
                                THEN out_name ELSE acc.primary,
                  files |-> acc.files \cup {out_name},
                  written |-> acc.written \cup {out_name},
                  copied |-> acc.copied \cup {name}],
                 failing)

\* the copy loop of _copy_glbs_from_comfyui_to_output:
\* acc = [seen, primary, files, written, copied]; `failing` are the sources whose
\* copy raises; written are the names copied to, copied the backend files copied
RECURSIVE CopyLoop(_, _, _, _)
CopyLoop(cands, stem, acc, failing) ==
  IF cands = << >> THEN acc
  ELSE LET name == Head(cands)
           base == CleanBase(name)
           suffix == VariantOf(base, stem)
           out_name == OutName(stem, suffix)
       IN IF ~StartsWith(base, stem) \/ suffix \in acc.seen
            THEN CopyLoop(Tail(cands), stem, acc, failing)
          ELSE IF name \in failing
            THEN CopyLoop(Tail(cands), stem,
                          [acc EXCEPT !.seen = @ \cup {suffix}], failing)
          ELSE CopyLoop(Tail(cands), stem,
                 [seen |-> acc.seen \cup {suffix},
                  primary |-> IF suffix = Textured \/ acc.primary = << >>
                                THEN out_name ELSE acc.primary,
                  files |-> acc.files \cup {out_name},
                  written |-> acc.written \cup {out_name},
                  copied |-> acc.copied \cup {name}],
                 failing)

\* Image2MeshGenerator._copy_glbs_from_comfyui_to_output: primary is << >> for None
CopyGlbsToOutput(comfy, stem, files, gone, failing) ==
  CopyLoop(ListGlbsWithPrefix(comfy, stem, gone), stem,
           [seen |-> {}, primary |-> << >>, files |-> files, written |-> {},
            copied |-> {}],
           failing)

(***************************************************************************)
(* Per-item pipeline and batch coordinator: the pure parts                 *)
(***************************************************************************)

\* Image2MeshGenerator._copy_image_to_comfyui: TRUE when it returns the basename,
\* FALSE when shutil.copy2 raises out of it.  scaled is what
\* _scale_image_to_max_size gave: "none" (None), "zero" (w * h == 0) or "image".
CopyImageToComfyui(scaled, save_ok, copy_ok) ==
  IF scaled = "none" THEN copy_ok
  ELSE IF scaled = "zero" THEN copy_ok
  ELSE IF save_ok THEN TRUE
  ELSE copy_ok

\* Image2MeshGenerator._queue_prompt: TRUE when a prompt_id is returned, FALSE for None
QueuePrompt(resp) ==
  CASE resp = "unreachable" -> FALSE
    [] resp = "non200" -> FALSE
    [] resp = "noid" -> FALSE
    [] OTHER -> TRUE

\* what the history request of one poll may come back with
PollReplies == {"error", "non200", "absent", "remaining", "zero", "nofield"}

\* Image2MeshGenerator._wait_for_completion, one request: TRUE when the reply
\* makes the loop return True (the job id is present and queue_remaining is 0
\* or missing)
HistoryDone(reply) ==
  CASE reply = "error" -> FALSE
    [] reply = "non200" -> FALSE
    [] reply = "absent" -> FALSE
    [] reply = "remaining" -> FALSE
    [] reply = "zero" -> TRUE
    [] reply = "nofield" -> TRUE

\* mutant: completed items are skipped even under force_regenerate
ToProcessIgnoresForce(imgs, done, force) ==
  SelectSeq(imgs, LAMBDA im : im.stem \notin done)

\* mutant: the pending items are taken in reverse
ToProcessReversed(imgs, done, force) ==
  Reverse(SelectSeq(imgs, LAMBDA im : force \/ im.stem \notin done))

\* process_all: completed_stems
CompletedStems(st, imgs, files) ==
  {imgs[i].stem : i \in {j \in 1..Len(imgs) : IsMeshComplete(st, imgs[j].stem, files)}}

\* process_all: to_process
ToProcess(imgs, done, force) ==
  SelectSeq(imgs, LAMBDA im : force \/ im.stem \notin done)

\* process_all: the map returned when nothing is left to process
EarlyResult(st, done) == [s \in done |-> st.meshes.results[s].path]

\* mutant: the recorded path is merged without looking at the disk
MergeCompletedNoExists(res, st, done, files) ==
  LET add == {s \in done : ResultsGet(st, s).path # << >>}
  IN [s \in DOMAIN res \cup add |->
        IF s \in add THEN ResultsGet(st, s).path ELSE res[s]]

\* mutant: nothing is merged
MergeCompletedNone(res, st, done, files) == res

\* mutant: only the previously completed items are returned
MergeCompletedOnly(res, st, done, files) ==
  LET add == {s \in done : /\ ResultsGet(st, s).path # << >>
                           /\ PathExists(ResultsGet(st, s).path, files)}
  IN [s \in add |-> ResultsGet(st, s).path]

\* process_all: previously completed items are included in the results
MergeCompleted(res, st, done, files) ==
  LET add == {s \in done : /\ ResultsGet(st, s).path # << >>
                           /\ PathExists(ResultsGet(st, s).path, files)}
  IN [s \in DOMAIN res \cup add |->
        IF s \in add THEN ResultsGet(st, s).path ELSE res[s]]

(***************************************************************************)
(* Bounds and the inputs explored                                          *)
(***************************************************************************)

\* polls of one job before the bounded wait has elapsed
MaxPolls == 1

\* the history counter of successful calls saturates here
MaxCount == 2

WhiteMesh == << "W", "h", "i", "t", "e", "M", "e", "s", "h" >>

Png == << ".", "p", "n", "g" >>

Jpg == << ".", "j", "p", "g" >>

\* Input directories, what the job template exports, and whether the environment
\* injects I/O faults, kills and external deletions
Scenarios ==
  { [dir |-> [exists |-> TRUE,
              files |-> {<< "a" >> \o Png, << "b" >> \o Png, << "c" >> \o Png},
              dirs |-> {}],
     exports |-> {Textured}, faults |-> FALSE],
    [dir |-> [exists |-> TRUE,
              files |-> {<< "a", "-", "1" >> \o Png, << "a" >> \o Png},
              dirs |-> {}],
     exports |-> {Textured}, faults |-> FALSE],
    [dir |-> [exists |-> TRUE,
              files |-> {<< "a" >> \o Png, << "b" >> \o Png},
              dirs |-> {}],
     exports |-> {Textured}, faults |-> TRUE],
    [dir |-> [exists |-> TRUE,
              files |-> {<< "a" >> \o Jpg, << "a" >> \o Png,
                         << "n", ".", "t", "x", "t" >>},
              dirs |-> {<< "d" >> \o Png}],
     exports |-> {Textured, WhiteMesh}, faults |-> TRUE],
    [dir |-> NoDir, exports |-> {Textured}, faults |-> TRUE] }

SaveOutcomes == {"ok", "openfail", "writefail"}

\* what the environment may do to a save, an unlink, a copy
SaveFaults(f) == IF f THEN SaveOutcomes ELSE {"ok"}

BoolFaults(f) == IF f THEN BOOLEAN ELSE {TRUE}

SetFaults(f, S) == IF f THEN SUBSET S ELSE {{}}

\* the name the backend gives the export of a variant for a prefix
BackendName(prefix, variant) ==
  prefix \o << "_" >> \o variant \o << "_", "0", "0", "0", "0", "1", "_" >> \o GlbExt

\* the backend (re)writes a file: it becomes the newest
Touch(comfy, name) == Append(SelectSeq(comfy, LAMBDA n : n # name), name)

(***************************************************************************)
(* State                                                                   *)
(***************************************************************************)

VARIABLES
  inputDir,          \* the input directory
  exports,           \* the variants the job template exports
  faults,            \* whether the environment injects faults, kills and deletions
  ckptFile,          \* the checkpoint file on disk
  outFiles,          \* names of the files of the output directory
  comfyOut,          \* backend output files, oldest to newest
  pc,                \* where the process is
  state,             \* ResumableState.state of the running process
  force_start,       \* the flag of the construction just made (until process_all is called)
  force_regenerate,  \* the flag of the current process_all call
  images,            \* process_all: images
  completed_stems,   \* process_all: completed_stems
  to_process,        \* process_all: to_process
  idx,               \* position of the for loop in to_process (1-based)
  results,           \* process_all: results
  polls,             \* _wait_for_completion: polls made for the current job
  out_path,          \* process_all: out_path of the current item
  ret,               \* what the last process_all that returned has returned
  removed,           \* what validate_and_cleanup_results returned in this call
  calls,             \* history: the items passed to process_one in this call
  okStems,           \* history: stems whose process_one returned a path, this call
  failedSubmit,      \* history: stems whose submission failed in this call
  validAtStart,      \* history: stems with a valid entry when this call began
  succ,              \* history: successful process_one calls per stem, while pure
  pure,              \* history: no force flag used, no output file deleted externally
  prevRet,           \* history: what the process_all before this one returned
  chained,           \* history: this call directly follows an undisturbed call without force
  chainOk,           \* history: no outside change since the last call without force began
  lastSet,           \* history: the last set_mesh_result of the store operations
  recorded,          \* history: stem -> path of the set_mesh_result calls that wrote and returned
  lastHarvest,       \* history: what the last harvest on its own found and wrote
  harvested          \* history: stem -> output names written by its harvest on its own

vars ==
  << inputDir, exports, faults, ckptFile, outFiles, comfyOut, pc, state,
     force_start, force_regenerate, images, completed_stems, to_process, idx,
     results, polls, out_path, ret, removed, calls, okStems, failedSubmit,
     validAtStart, succ, pure, prevRet, chained, chainOk, lastSet, recorded,
     lastHarvest, harvested >>

envVars == << inputDir, exports, faults >>

diskVars == << ckptFile, outFiles, comfyOut >>

storeVars == << state, force_start >>

\* the locals of process_all that the for loop does not change
partVars == << force_regenerate, images, completed_stems, to_process, removed,
               validAtStart >>

\* the histories across calls
histVars == << pure, prevRet, chained >>

\* the histories of the store and of the harvester on their own
otherHist == << lastSet, recorded, lastHarvest, harvested >>

NoSet == [stem |-> << >>, path |-> << >>, saved |-> FALSE, loaded |-> FALSE]

NoHarvest ==
  [stem |-> << >>, primary |-> << >>, written |-> {}, copied |-> {},
   faulty |-> FALSE]

\* the stems of the entries of the input directory
AllStems == {PathStem(n) : n \in inputDir.files \cup inputDir.dirs}

NoSucc == [s \in AllStems |-> 0]

ResetCall ==
  /\ force_regenerate' = FALSE
  /\ images' = << >>
  /\ completed_stems' = {}
  /\ to_process' = << >>
  /\ idx' = 1
  /\ results' = << >>
  /\ polls' = 0
  /\ out_path' = << >>
  /\ removed' = 0
  /\ calls' = << >>
  /\ okStems' = {}
  /\ failedSubmit' = {}
  /\ validAtStart' = {}

\* everything but the input directory, as it is before the first process starts
InitRest ==
  /\ ckptFile = NoFile
  /\ outFiles = {}
  /\ comfyOut = << >>
  /\ pc = "off"
  /\ state = EmptyState
  /\ force_start = FALSE
  /\ force_regenerate = FALSE
  /\ images = << >>
  /\ completed_stems = {}
  /\ to_process = << >>
  /\ idx = 1
  /\ results = << >>
  /\ polls = 0
  /\ out_path = << >>
  /\ ret = << >>
  /\ removed = 0
  /\ calls = << >>
  /\ okStems = {}
  /\ failedSubmit = {}
  /\ validAtStart = {}
  /\ succ = NoSucc
  /\ pure = TRUE
  /\ prevRet = << >>
  /\ chained = FALSE
  /\ chainOk = FALSE
  /\ lastSet = NoSet
  /\ recorded = << >>
  /\ lastHarvest = NoHarvest
  /\ harvested = << >>

Init ==
  /\ \E sc \in Scenarios :
       inputDir = sc.dir /\ exports = sc.exports /\ faults = sc.faults
  /\ InitRest

(***************************************************************************)
(* Actions of a run of main()                                              *)
(***************************************************************************)

\* main: a new process constructs its ResumableState (ResumableState.__init__)
StartProcess ==
  /\ pc \in {"off", "returned", "crashed"}
  /\ \E fs \in BOOLEAN :
     \E c \in {Construct(ckptFile, fs, u) : u \in BoolFaults(faults)} :
          /\ ckptFile' = c.file
          /\ state' = c.state
          /\ force_start' = fs
          /\ chainOk' = (chainOk /\ pc = "returned" /\ c.state = state)
          /\ pure' = (pure /\ ~fs)
          /\ succ' = IF pure /\ ~fs THEN succ ELSE NoSucc
  /\ pc' = "ready"
  /\ ResetCall
  /\ ret' = IF chainOk' THEN ret ELSE << >>
  /\ UNCHANGED << envVars, outFiles, comfyOut, prevRet, chained, otherHist >>

\* process_all up to the for loop: enumerate, reconcile, partition
ProcessAllBegin ==
  /\ pc \in {"ready", "returned"}
  /\ \E fr \in BOOLEAN :
     \E v \in {ValidateAndCleanup(state, outFiles)} :
     \E saved \in {IF v.removed > 0 THEN SaveState(ckptFile, v.state, o)
                   ELSE ckptFile : o \in SaveFaults(faults)} :
       LET imgs == GetImageFiles(inputDir)
           done == CompletedStems(v.state, imgs, outFiles)
           todo == ToProcess(imgs, done, fr)
       IN /\ force_regenerate' = fr
          /\ images' = imgs
          /\ validAtStart' = {s \in AllStems : IsMeshComplete(state, s, outFiles)}
          /\ IF imgs = << >>
               THEN /\ UNCHANGED << state, ckptFile >>
                    /\ removed' = 0
                    /\ completed_stems' = {}
                    /\ to_process' = << >>
                    /\ ret' = << >>
                    /\ pc' = "returned"
                    /\ chainOk' = ~fr
               ELSE /\ state' = v.state
                    /\ ckptFile' = saved
                    /\ removed' = v.removed
                    /\ completed_stems' = done
                    /\ to_process' = todo
                    /\ IF todo = << >>
                         THEN /\ ret' = EarlyResult(v.state, done)
                              /\ pc' = "returned"
                              /\ chainOk' = ~fr
                         ELSE /\ ret' = << >>
                              /\ pc' = "item"
                              /\ chainOk' = ~fr
          /\ prevRet' = IF chainOk /\ ~fr THEN ret ELSE << >>
          /\ chained' = (chainOk /\ ~fr)
          /\ pure' = (pure /\ ~fr)
          /\ succ' = IF pure /\ ~fr THEN succ ELSE NoSucc
  /\ idx' = 1
  /\ results' = << >>
  /\ polls' = 0
  /\ out_path' = << >>
  /\ calls' = << >>
  /\ okStems' = {}
  /\ failedSubmit' = {}
  /\ force_start' = FALSE
  /\ UNCHANGED << envVars, outFiles, comfyOut, otherHist >>

\* process_one is called for the next item and stages its image
Stage ==
  /\ pc = "item"
  /\ idx <= Len(to_process)
  /\ calls' = Append(calls, to_process[idx])
  /\ \E staged \in {CopyImageToComfyui(sc, sv, cp) :
                      sc \in {"none", "zero", "image"},
                      sv \in BOOLEAN, cp \in BOOLEAN} :
       pc' = IF staged THEN "staged" ELSE "crashed"
  /\ UNCHANGED << envVars, diskVars, storeVars, partVars, histVars, idx, results,
                  polls, out_path, ret, okStems, failedSubmit, succ, chainOk,
                  otherHist >>

\* a submission that drops the item's checkpoint entry when the item fails
SubmitDropsEntryOnFailure ==
  /\ pc = "staged"
  /\ \E readable \in BOOLEAN,
        queued \in {QueuePrompt(r) : r \in {"unreachable", "non200", "noid", "ok"}} :
       IF ~readable
         THEN /\ pc' = "crashed"
              /\ UNCHANGED << idx, failedSubmit, state, ckptFile >>
       ELSE IF ~queued
         THEN /\ pc' = "item"
              /\ idx' = idx + 1
              /\ failedSubmit' = failedSubmit \cup {to_process[idx].stem}
              /\ state' =
                   [meshes |->
                      [completed |-> ListRemove(state.meshes.completed,
                                                to_process[idx].stem),
                       results |-> DictDel(state.meshes.results,
                                           to_process[idx].stem)]]
              /\ ckptFile' = JsonFile(state')
       ELSE /\ pc' = "poll"
            /\ UNCHANGED << idx, failedSubmit, state, ckptFile >>
  /\ UNCHANGED << envVars, outFiles, comfyOut, force_start, partVars, histVars,
                  results, polls, out_path, ret, calls, okStems, succ, chainOk,
                  otherHist >>

\* process_one: _load_workflow, _set_workflow_image_and_prefix, _queue_prompt
Submit ==
  /\ pc = "staged"
  /\ \E readable \in BOOLEAN,
        queued \in {QueuePrompt(r) : r \in {"unreachable", "non200", "noid", "ok"}} :
       IF ~readable
         THEN /\ pc' = "crashed"
              /\ UNCHANGED << idx, failedSubmit >>
       ELSE IF ~queued
         THEN /\ pc' = "item"
              /\ idx' = idx + 1
              /\ failedSubmit' = failedSubmit \cup {to_process[idx].stem}
       ELSE /\ pc' = "poll"
            /\ UNCHANGED << idx, failedSubmit >>
  /\ UNCHANGED << envVars, diskVars, storeVars, partVars, histVars, results,
                  polls, out_path, ret, calls, okStems, succ, chainOk, otherHist >>

\* an iteration of the wait that starts its clock again when the wait has elapsed
PollRestartsClock ==
  /\ pc = "poll"
  /\ IF polls >= MaxPolls
       THEN pc' = "poll" /\ polls' = 0
       ELSE \E reply \in PollReplies :
              IF HistoryDone(reply)
                THEN pc' = "harvest" /\ polls' = polls
                ELSE pc' = "poll" /\ polls' = polls + 1
  /\ UNCHANGED << envVars, diskVars, storeVars, partVars, histVars, idx, results,
                  out_path, ret, calls, okStems, failedSubmit, succ, chainOk,
                  otherHist >>

\* one iteration of the loop of _wait_for_completion; the wait has elapsed
\* after MaxPolls polls, and polls = MaxPolls afterwards tells a wait that
\* timed out from one that saw the job done
Poll ==
  /\ pc = "poll"
  /\ IF polls >= MaxPolls
       THEN pc' = "harvest" /\ polls' = polls
       ELSE \E reply \in PollReplies :
              IF HistoryDone(reply)
                THEN pc' = "harvest" /\ polls' = polls
                ELSE pc' = "poll" /\ polls' = polls + 1
  /\ UNCHANGED << envVars, diskVars, storeVars, partVars, histVars, idx, results,
                  out_path, ret, calls, okStems, failedSubmit, succ, chainOk,
                  otherHist >>

\* the backend writes an export of the running job
BackendWrite ==
  /\ pc = "poll"
  /\ \E v \in exports :
       comfyOut' = Touch(comfyOut, BackendName(to_process[idx].stem, v))
  /\ UNCHANGED << envVars, ckptFile, outFiles, pc, storeVars, partVars, histVars,
                  idx, results, polls, out_path, ret, calls, okStems,
                  failedSubmit, succ, chainOk, otherHist >>

\* process_one: _copy_glbs_from_comfyui_to_output and the return
Harvest ==
  /\ pc = "harvest"
  /\ \E gone \in SetFaults(faults, Range(comfyOut)) :
       \E failing \in SetFaults(faults, Range(comfyOut) \ gone) :
         LET stem == to_process[idx].stem
             r == CopyGlbsToOutput(comfyOut, stem, outFiles, gone, failing)
         IN /\ outFiles' = r.files
            /\ out_path' = r.primary
            /\ IF r.primary = << >>
                 THEN /\ pc' = "item"
                      /\ idx' = idx + 1
                      /\ polls' = 0
                      /\ UNCHANGED << succ, okStems >>
                 ELSE /\ pc' = "record"
                      /\ idx' = idx
                      /\ polls' = polls
                      /\ succ' = IF pure /\ succ[stem] < MaxCount
                                   THEN [succ EXCEPT ![stem] = @ + 1] ELSE succ
                      /\ okStems' = okStems \cup {stem}
  /\ UNCHANGED << envVars, ckptFile, comfyOut, storeVars, partVars, histVars,
                  results, ret, calls, failedSubmit, chainOk, otherHist >>

\* a recording step in which a failed checkpoint write aborts the run
RecordRaisesOnSaveFailure ==
  /\ pc = "record"
  /\ \E outcome \in SaveFaults(faults) :
       LET stem == to_process[idx].stem
           st == SetMeshResult(state, stem, out_path)
       IN /\ results' = DictSet(results, stem, out_path)
          /\ state' = st
          /\ ckptFile' = SaveState(ckptFile, st, outcome)
          /\ pc' = IF outcome = "ok" THEN "item" ELSE "crashed"
  /\ idx' = idx + 1
  /\ out_path' = << >>
  /\ polls' = 0
  /\ UNCHANGED << envVars, outFiles, comfyOut, force_start, partVars, histVars,
                  ret, calls, okStems, failedSubmit, succ, chainOk,
                  otherHist >>

\* process_all: results[stem] = out_path; resumable_state.set_mesh_result(stem, out_path)
Record ==
  /\ pc = "record"
  /\ \E outcome \in SaveFaults(faults) :
       LET stem == to_process[idx].stem
           st == SetMeshResult(state, stem, out_path)
       IN /\ results' = DictSet(results, stem, out_path)
          /\ state' = st
          /\ ckptFile' = SaveState(ckptFile, st, outcome)
  /\ idx' = idx + 1
  /\ out_path' = << >>
  /\ polls' = 0
  /\ pc' = "item"
  /\ UNCHANGED << envVars, outFiles, comfyOut, force_start, partVars, histVars,
                  ret, calls, okStems, failedSubmit, succ, chainOk,
                  otherHist >>

\* process_all: the merge of the previously completed items and the return
Finish ==
  /\ pc = "item"
  /\ idx > Len(to_process)
  /\ results' = MergeCompleted(results, state, completed_stems, outFiles)
  /\ ret' = results'
  /\ pc' = "returned"
  /\ UNCHANGED << envVars, diskVars, storeVars, partVars, histVars, idx, polls,
                  out_path, calls, okStems, failedSubmit, succ, chainOk,
                  otherHist >>

\* the process is killed
Kill ==
  /\ faults
  /\ pc \in {"ready", "item", "staged", "poll", "harvest", "record"}
  /\ pc' = "off"
  /\ state' = EmptyState
  /\ force_start' = FALSE
  /\ ResetCall
  /\ ret' = << >>
  /\ prevRet' = << >>
  /\ chained' = FALSE
  /\ chainOk' = FALSE
  /\ UNCHANGED << envVars, diskVars, succ, pure, otherHist >>

\* a file of the output directory is deleted from outside, before a run or
\* between two items of a run
DeleteOutput ==
  /\ faults
  /\ pc \in {"off", "ready", "item", "returned"}
  /\ \E f \in outFiles : outFiles' = outFiles \ {f}
  /\ pure' = FALSE
  /\ succ' = NoSucc
  /\ chainOk' = FALSE
  /\ chained' = FALSE
  /\ UNCHANGED << envVars, ckptFile, comfyOut, pc, storeVars, partVars, prevRet,
                  idx, results, polls, out_path, ret, calls, okStems,
                  failedSubmit, otherHist >>

\* an image is removed from the input directory between two runs
RemoveInput ==
  /\ faults
  /\ pc \in {"off", "returned"}
  /\ \E im \in Range(GetImageFiles(inputDir)) :
       inputDir' = [inputDir EXCEPT !.files = @ \ {im.path}]
  /\ pure' = FALSE
  /\ succ' = [s \in {PathStem(n) : n \in inputDir'.files \cup inputDir'.dirs}
               |-> 0]
  /\ chainOk' = FALSE
  /\ chained' = FALSE
  /\ UNCHANGED << exports, faults, diskVars, pc, storeVars, partVars, prevRet,
                  idx, results, polls, out_path, ret, calls, okStems,
                  failedSubmit, otherHist >>

Next ==
  \/ StartProcess
  \/ ProcessAllBegin
  \/ Stage
  \/ Submit
  \/ Poll
  \/ BackendWrite
  \/ Harvest
  \/ Record
  \/ Finish
  \/ Kill
  \/ DeleteOutput
  \/ RemoveInput

Spec == Init /\ [][Next]_vars

(***************************************************************************)
(* The checkpoint store on its own: any sequence of its operations         *)
(***************************************************************************)

StoreStems == {<< "x" >>, << "y" >>}

StorePaths == {<< "x" >> \o GlbExt, << "y" >> \o GlbExt, << >>}

StoreFiles == {<< "x" >> \o GlbExt, << "y" >> \o GlbExt}

\* the variables the store operations leave alone
nonStoreVars ==
  << envVars, comfyOut, force_regenerate, images, completed_stems,
     to_process, idx, results, polls, out_path, ret, calls, okStems,
     failedSubmit, validAtStart, succ, pure, prevRet, chained, chainOk,
     lastHarvest, harvested >>

InitStore ==
  /\ inputDir = NoDir
  /\ exports = {}
  /\ faults = TRUE
  /\ InitRest

\* ResumableState(checkpoint_dir, script_name, force_start)
StoreNew ==
  /\ \E fs \in BOOLEAN :
     \E c \in {Construct(ckptFile, fs, u) : u \in BOOLEAN} :
       /\ ckptFile' = c.file
       /\ state' = c.state
       /\ force_start' = fs
       /\ lastSet' = IF lastSet.stem # << >> /\ ~fs
                       THEN [lastSet EXCEPT !.loaded = TRUE] ELSE NoSet
       /\ recorded' = IF fs THEN << >> ELSE recorded
  /\ pc' = IF pc \in {"killed", "restarted"} THEN "restarted" ELSE "ready"
  /\ removed' = 0
  /\ UNCHANGED << nonStoreVars, outFiles >>

\* resumable_state.set_mesh_result(stem, path): KeyError on a document without
\* the expected keys
StoreSet ==
  /\ pc \in {"ready", "restarted"}
  /\ IF ~WellShaped(state)
       THEN /\ pc' = "crashed"
            /\ UNCHANGED << state, ckptFile, lastSet, recorded >>
       ELSE /\ \E stem \in StoreStems, path \in StorePaths,
                  outcome \in SaveOutcomes :
                 LET st == SetMeshResult(state, stem, path)
                 IN /\ state' = st
                    /\ ckptFile' = SaveState(ckptFile, st, outcome)
                    /\ lastSet' = [stem |-> stem, path |-> path,
                                   saved |-> (outcome = "ok"), loaded |-> FALSE]
                    /\ recorded' = IF outcome = "ok"
                                      THEN DictSet(recorded, stem, path)
                                      ELSE DictDel(recorded, stem)
            /\ pc' = pc
  /\ force_start' = FALSE
  /\ removed' = 0
  /\ UNCHANGED << nonStoreVars, outFiles >>

\* resumable_state.validate_and_cleanup_results(output_dir): KeyError on a
\* document without the expected keys
StoreValidate ==
  /\ pc \in {"ready", "restarted"}
  /\ IF ~WellShaped(state)
       THEN /\ pc' = "crashed"
            /\ UNCHANGED << state, ckptFile, removed, recorded >>
       ELSE /\ \E outcome \in SaveOutcomes :
                 LET v == ValidateAndCleanup(state, outFiles)
                 IN /\ state' = v.state
                    /\ removed' = v.removed
                    /\ ckptFile' = IF v.removed > 0
                                     THEN SaveState(ckptFile, v.state, outcome)
                                     ELSE ckptFile
                    /\ recorded' =
                         [s \in {t \in DOMAIN recorded :
                                   t \notin DOMAIN state.meshes.results
                                   \/ t \in DOMAIN v.state.meshes.results}
                            |-> recorded[s]]
            /\ pc' = pc
  /\ force_start' = FALSE
  /\ lastSet' = NoSet
  /\ UNCHANGED << nonStoreVars, outFiles >>

\* the process is killed, between two store operations or while a later
\* set_mesh_result is rewriting the document (open(..., "w") has truncated it)
StoreKill ==
  /\ pc \in {"ready", "restarted"}
  /\ \E torn \in BOOLEAN :
       /\ ckptFile' = IF torn THEN CorruptFile ELSE ckptFile
       /\ lastSet' = IF torn THEN NoSet ELSE [lastSet EXCEPT !.loaded = FALSE]
  /\ pc' = "killed"
  /\ state' = EmptyState
  /\ force_start' = FALSE
  /\ removed' = 0
  /\ UNCHANGED << nonStoreVars, outFiles, recorded >>

\* the checkpoint file is replaced from outside by a JSON document of another shape
StoreDamage ==
  /\ ckptFile' = JsonFile(WrongShapeDoc)
  /\ lastSet' = NoSet
  /\ recorded' = << >>
  /\ UNCHANGED << nonStoreVars, outFiles, pc, state, force_start, removed >>

\* a file appears in the output directory
FileCreate ==
  /\ \E f \in StoreFiles \ outFiles : outFiles' = outFiles \cup {f}
  /\ UNCHANGED << nonStoreVars, pc, ckptFile, state, force_start, removed,
                  lastSet, recorded >>

\* a file of the output directory is deleted
FileDelete ==
  /\ \E f \in outFiles : outFiles' = outFiles \ {f}
  /\ UNCHANGED << nonStoreVars, pc, ckptFile, state, force_start, removed,
                  lastSet, recorded >>

NextStore ==
  \/ StoreNew
  \/ StoreSet
  \/ StoreValidate
  \/ StoreKill
  \/ StoreDamage
  \/ FileCreate
  \/ FileDelete

SpecStore == InitStore /\ [][NextStore]_vars

(***************************************************************************)
(* Runs over one image, with the scheduling the program has: an iteration  *)
(* of the wait that can run does run                                       *)
(***************************************************************************)

InitLive ==
  /\ inputDir = [exists |-> TRUE, files |-> {<< "a" >> \o Png}, dirs |-> {}]
  /\ exports = {Textured}
  /\ faults = TRUE
  /\ InitRest

SpecLive == InitLive /\ [][Next]_vars /\ WF_vars(Poll)

(***************************************************************************)
(* The harvester on its own: the backend writes files, then one harvest    *)
(* into an empty output directory                                          *)
(***************************************************************************)

\* backend files in the output area before the harvest
MaxBackendFiles == 4

Item == << "i", "t", "e", "m" >>

Item2 == << "i", "t", "e", "m", "2" >>

Refined == << "R", "e", "f", "i", "n", "e", "d" >>

Counter1 == << "_", "0", "0", "0", "0", "1", "_" >>

Counter2 == << "_", "0", "0", "0", "0", "2", "_" >>

ItemTextured1 == Item \o << "_" >> \o Textured \o Counter1 \o GlbExt

ItemTextured2 == Item \o << "_" >> \o Textured \o Counter2 \o GlbExt

ItemWhiteMesh1 == Item \o << "_" >> \o WhiteMesh \o Counter1 \o GlbExt

ItemRefined1 == Item \o << "_" >> \o Refined \o Counter1 \o GlbExt

Item2Textured1 == Item2 \o << "_" >> \o Textured \o Counter1 \o GlbExt

Item2Bare1 == Item2 \o Counter1 \o GlbExt

\* the files the backend may have written, for items "item" and "item2"
HarvestNames ==
  {ItemTextured1, ItemTextured2, ItemWhiteMesh1, ItemRefined1, Item2Textured1,
   Item2Bare1}

\* the identifier of an image named item_WhiteMesh.png
ItemWhiteMesh == Item \o << "_" >> \o WhiteMesh

\* the identifiers of the run, in the order process_all takes them
HarvestOrder == << Item, Item2, ItemWhiteMesh >>

HarvestStems == Range(HarvestOrder)

\* the variables the harvester leaves alone
nonHarvestVars ==
  << envVars, ckptFile, pc, storeVars, partVars, histVars, idx, results, polls,
     ret, calls, okStems, failedSubmit, succ, chainOk, lastSet, recorded >>

InitHarvest ==
  /\ inputDir = NoDir
  /\ exports = {}
  /\ faults = TRUE
  /\ InitRest

\* the backend writes (or rewrites) an export
HarvestBackendWrite ==
  /\ lastHarvest = NoHarvest
  /\ \E n \in HarvestNames :
       /\ n \in Range(comfyOut) \/ Len(comfyOut) < MaxBackendFiles
       /\ comfyOut' = Touch(comfyOut, n)
  /\ UNCHANGED << nonHarvestVars, outFiles, out_path, lastHarvest, harvested >>

\* _copy_glbs_from_comfyui_to_output(stem) for the next item of the run that
\* gets as far as its harvest; at most one copy fails, in the first harvest
HarvestCopy ==
  /\ \E i \in DOMAIN HarvestOrder :
     \E failing \in {{}} \cup (IF harvested = << >>
                                 THEN {{n} : n \in Range(comfyOut)} ELSE {}) :
       /\ \A j \in DOMAIN HarvestOrder :
            HarvestOrder[j] \in DOMAIN harvested => j < i
       /\ LET stem == HarvestOrder[i]
              r == CopyGlbsToOutput(comfyOut, stem, outFiles, {}, failing)
          IN /\ outFiles' = r.files
             /\ out_path' = r.primary
             /\ lastHarvest' = [stem |-> stem, primary |-> r.primary,
                                written |-> r.written, copied |-> r.copied,
                                faulty |-> failing # {}]
             /\ harvested' = DictSet(harvested, stem, r.written)
  /\ UNCHANGED << nonHarvestVars, comfyOut >>

NextHarvest ==
  \/ HarvestBackendWrite
  \/ HarvestCopy

SpecHarvest == InitHarvest /\ [][NextHarvest]_vars

(***************************************************************************)
(* Properties                                                              *)
(***************************************************************************)

\* stems of the items passed to process_one in this call, in order
CallStems == StemsOf(calls)

\* items begun and not yet finished: calls made minus loop iterations completed
InFlight == Len(calls) - (idx - 1)

\* C1 (as claimed): over runs with force_regenerate = false against the same
\* checkpoint, with kills and no external deletion, no item goes through a
\* successful process_one more than once in total.
C1_AtMostOnce ==
  pure => \A p \in DOMAIN succ : succ[p] <= 1

\* C2 (as claimed): the second of two process_all calls in a row, nothing changed
\* in between, calls process_one for no item and returns what the first returned.
C2_Idempotent ==
  (pc = "returned" /\ chained) => (calls = << >> /\ ret = prevRet)

\* C2 (amended): the second call processes exactly the enumerated items that are
\* absent from the first call's map, and its map agrees with the first call's
\* map on every identifier of the first.
C2_SecondRunProcessesOnlyFailed ==
  (pc = "returned" /\ chained) =>
    /\ calls = SelectSeq(images, LAMBDA im : im.stem \notin DOMAIN prevRet)
    /\ \A s \in DOMAIN prevRet : s \in DOMAIN ret /\ ret[s] = prevRet[s]

\* C2 witness: a second call that kept the first call's results and retried an item
C2_Witness ==
  /\ pc = "returned"
  /\ chained
  /\ prevRet # << >>
  /\ calls # << >>

\* the entries of the store whose recorded file is missing
StaleEntries(st, files) ==
  {s \in DOMAIN st.meshes.results :
     ~(st.meshes.results[s].path # << >>
       /\ PathExists(st.meshes.results[s].path, files))}

\* what reconciliation leaves of the entries whose file is missing: gone from the
\* completed list and the results map, counted, their item pending, and no
\* entry left that points to a missing file
Reconciled ==
  /\ \A s \in StaleEntries(state, outFiles) :
       /\ s \notin Range(state'.meshes.completed)
       /\ s \notin DOMAIN state'.meshes.results
       /\ s \in Range(StemsOf(images')) => s \in Range(StemsOf(to_process'))
  /\ removed' = Cardinality(StaleEntries(state, outFiles))
  /\ StaleEntries(state', outFiles') = {}

\* C3 (as claimed): in every run, entries whose recorded file was deleted are
\* evicted by validate_and_cleanup_results before the partition.
C3_ReconcileAlways ==
  [][ProcessAllBegin => Reconciled]_vars

\* C3 (amended): in every run whose input directory holds at least one image,
\* entries whose recorded file was deleted are evicted by
\* validate_and_cleanup_results before the partition: removed from the completed
\* list and the results map, counted in the number returned, their item (if
\* enumerated) pending; afterwards no entry points to a missing file.
C3_ReconcileWhenImages ==
  [][(ProcessAllBegin /\ images' # << >>) => Reconciled]_vars

\* C3 witness: a run has just evicted an entry and its item is pending again
C3_Witness ==
  /\ pc = "item"
  /\ calls = << >>
  /\ removed > 0
  /\ \E i \in 1..Len(to_process) :
       to_process[i].stem \notin DOMAIN state.meshes.results

\* C4 (as claimed): the items that succeeded are in the returned map and an item
\* whose submission failed is not, whatever force_regenerate and the checkpoint.
C4_Isolation ==
  pc = "returned" =>
    /\ \A s \in okStems : s \in DOMAIN ret
    /\ \A s \in failedSubmit \ okStems : s \notin DOMAIN ret

\* C4 (amended): the items that succeeded are in the returned map; an item whose
\* submission failed is in it only under force_regenerate with a valid entry
\* when the call began, and then with the path recorded before.
C4_IsolationUnlessRecorded ==
  pc = "returned" =>
    /\ \A s \in okStems : s \in DOMAIN ret
    /\ \A s \in failedSubmit \ okStems :
         s \in DOMAIN ret =>
           /\ force_regenerate
           /\ s \in validAtStart
           /\ ret[s] = ResultsGet(state, s).path

\* C4 witness: a, b, c pending, b's submission failed, a and c are returned
C4_Witness ==
  /\ pc = "returned"
  /\ CallStems = << << "a" >>, << "b" >>, << "c" >> >>
  /\ failedSubmit = {<< "b" >>}
  /\ DOMAIN ret = {<< "a" >>, << "c" >>}

\* C5 (as claimed): no per-item error aborts process_all.
C5_NoAbort == pc # "crashed"

\* C6 (as claimed): the identifiers passed to process_one are in ascending order
\* and one item is finished before the next is staged.
C6_SortedByStem ==
  /\ InFlight \in {0, 1}
  /\ \A i, j \in 1..Len(calls) :
       i < j => ~StrLess(calls[j].stem, calls[i].stem)

\* C6 (amended): the items are passed to process_one in ascending order of their
\* file names, in the order of to_process, one at a time.
C6_SortedByName ==
  /\ InFlight \in {0, 1}
  /\ (InFlight = 1) = (pc \in {"staged", "poll", "harvest", "record", "crashed"})
  /\ \A i \in 1..Len(calls) : calls[i] = to_process[i]
  /\ \A i, j \in 1..Len(calls) :
       i < j => StrLess(calls[i].path, calls[j].path)

\* C6 witness: two items processed whose stems are not in ascending order
C6_Witness ==
  /\ pc = "returned"
  /\ Len(calls) = 2
  /\ StrLess(calls[2].stem, calls[1].stem)

\* C7 (as claimed): the stems enumerated for one directory are pairwise distinct.
C7_DistinctStems ==
  \A i, j \in 1..Len(images) : i # j => images[i].stem # images[j].stem

\* C8: set_mesh_result(x, p) persisted, then a new ResumableState loading it:
\* is_mesh_complete(x) is true exactly when file p exists at the time of the
\* call, and false for every identifier without an entry.
C8_RoundTrip ==
  (lastSet.saved /\ lastSet.loaded) =>
    /\ IsMeshComplete(state, lastSet.stem, outFiles)
         = (lastSet.path \in outFiles)
    /\ \A s \in StoreStems :
         s \notin DOMAIN state.meshes.results
           => ~IsMeshComplete(state, s, outFiles)

\* C8 witness: written, loaded, and reported complete with the file present
C8_Witness ==
  /\ lastSet.saved
  /\ lastSet.loaded
  /\ lastSet.path \in outFiles
  /\ IsMeshComplete(state, lastSet.stem, outFiles)

\* C9: under force_regenerate every enumerated item is pending, and passed to
\* process_one when the call returns, valid entry or not.
C9_ForceProcessesAll ==
  force_regenerate =>
    /\ to_process = images
    /\ pc = "returned" => calls = images

\* C9 witness: a forced call returned after processing an item with a valid entry
C9_Witness ==
  /\ pc = "returned"
  /\ force_regenerate
  /\ \E i \in 1..Len(calls) : calls[i].stem \in validAtStart

\* C10 (as claimed): right after a construction with force_start no identifier
\* is complete.
C10_ForceStartEmpty ==
  (pc = "ready" /\ force_start) =>
    \A s \in AllStems : ~IsMeshComplete(state, s, outFiles)

\* C11 (as claimed): in a process restarted after a kill, every identifier whose
\* set_mesh_result had written the document and returned before the kill, and
\* whose file exists, is reported complete by is_mesh_complete.
C11_ProgressNeverLost ==
  pc = "restarted" =>
    \A s \in DOMAIN recorded :
      recorded[s] \in outFiles => IsMeshComplete(state, s, outFiles)

\* C12 (as claimed): whatever the checkpoint file holds, construction and every
\* later store operation complete without raising.
C12_LoadNeverFails == ~(pc = "crashed" /\ ~WellShaped(state))

C14_OnlyOwnFiles ==
  lastHarvest.stem # << >> =>
    \A n \in lastHarvest.copied :
      \/ n = lastHarvest.stem \o GlbExt
      \/ StartsWith(n, lastHarvest.stem \o << "_" >>)

\* position of a backend file in the output area; a later position is newer
PosOf(n) == CHOOSE i \in DOMAIN comfyOut : comfyOut[i] = n

\* the variant a backend file is an export of, for the harvested identifier
HarvestVariant(n) == VariantOf(CleanBase(n), lastHarvest.stem)

\* the backend files the harvest lists for the identifier
Listed == {n \in Range(comfyOut) : MatchesPrefix(n, lastHarvest.stem)}

\* the listed files whose clean base starts with the identifier
Eligible == {n \in Listed : StartsWith(CleanBase(n), lastHarvest.stem)}

\* no copied file has a newer export of the same variant
NewestOnly ==
  \A n \in lastHarvest.copied :
    /\ n \in Eligible
    /\ \A m \in Eligible :
         HarvestVariant(m) = HarvestVariant(n) => PosOf(m) <= PosOf(n)

Returns == (ProcessAllBegin \/ Finish) /\ pc' = "returned"

\* enumerated items complete when the run began whose recorded file exists
PrevCompleted ==
  {s \in validAtStart \cap Range(StemsOf(images)) :
     PathExists(ResultsGet(state, s).path, outFiles)}

\* the returned map is this run's successes and the previously completed items,
\* each with its recorded path
ExactMap ==
  /\ DOMAIN ret = okStems \cup PrevCompleted
  /\ \A s \in DOMAIN ret : ret[s] = ResultsGet(state, s).path

\* C15 (as claimed): the map returned is exactly this run's successes and the
\* previously completed enumerated items whose file exists, and every path of
\* the map exists on disk when process_all returns.
C15_ReturnedMapOnDisk ==
  [][Returns => (ExactMap /\ \A s \in DOMAIN ret : PathExists(ret[s], outFiles))']_vars

\* C15 (amended): the map returned is exactly this run's successes and the
\* previously completed enumerated items whose file exists at the return; the
\* paths of items not processed successfully in this run exist at the return.
C15_ReturnedMap ==
  [][Returns =>
       (/\ ExactMap
        /\ \A s \in DOMAIN ret \ okStems : PathExists(ret[s], outFiles)
        /\ \A s \in PrevCompleted : PathExists(ret[s], outFiles))']_vars

\* C15 witness: a run returned one item it processed and one it merged
C15_Witness ==
  /\ pc = "returned"
  /\ okStems # {}
  /\ PrevCompleted \ okStems # {}
  /\ DOMAIN ret = okStems \cup PrevCompleted

\* every entry of a checkpoint document is whole and names an existing file
EntriesOnDisk(st) ==
  WellShaped(st) =>
    /\ Range(st.meshes.completed) = DOMAIN st.meshes.results
    /\ \A s \in DOMAIN st.meshes.results :
         /\ st.meshes.results[s].path # << >>
         /\ PathExists(st.meshes.results[s].path, outFiles)

\* the path about to be recorded is on disk, and so is every entry in memory
\* and in the persisted document
OutputBeforeEntry ==
  /\ pc = "record" => PathExists(out_path, outFiles)
  /\ EntriesOnDisk(state)
  /\ (ckptFile.exists /\ ckptFile.parses) => EntriesOnDisk(ckptFile.value)

\* C16: set_mesh_result(id, p) is called only when p is in the output directory;
\* starting from an empty store, no step of a run, a kill or a restart that
\* leaves the output files in place breaks "every entry, in memory and
\* persisted, is whole and names an existing file".
C16_EntryAfterOutput ==
  /\ OutputBeforeEntry
  /\ [][(OutputBeforeEntry /\ outFiles \subseteq outFiles') => OutputBeforeEntry']_vars

\* C16 witness: a process was killed and the persisted document holds an entry
C16_Witness ==
  /\ pc = "off"
  /\ ckptFile.exists /\ ckptFile.parses
  /\ DOMAIN ckptFile.value.meshes.results # {}
  /\ EntriesOnDisk(ckptFile.value)

\* the step that records an item whose checkpoint write fails
RecordWriteFails ==
  /\ pc = "record"
  /\ pc' # "off"
  /\ ckptFile' # JsonFile(SetMeshResult(state, to_process[idx].stem, out_path))

\* C17: when the checkpoint write of set_mesh_result fails, the call returns, the
\* entry is in the in-memory document and in the run's result map, the loop goes
\* on to the next item; a run that returns has called process_one for every
\* pending item and returns every item recorded.
C17_SoftSaveFailure ==
  [][/\ RecordWriteFails =>
          /\ pc' = "item"
          /\ idx' = idx + 1
          /\ state' = SetMeshResult(state, to_process[idx].stem, out_path)
          /\ IsMeshComplete(state', to_process[idx].stem, outFiles')
          /\ to_process[idx].stem \in DOMAIN results'
          /\ results'[to_process[idx].stem] = out_path
     /\ Finish =>
          /\ calls = to_process
          /\ okStems \subseteq DOMAIN ret'
    ]_vars

\* C17 witness: the first of two pending items was recorded in memory and in the
\* result map, its checkpoint write failed, and the second item was begun
C17_Witness ==
  /\ pc = "staged"
  /\ idx = 2
  /\ to_process[1].stem \in DOMAIN results
  /\ IsMeshComplete(state, to_process[1].stem, outFiles)
  /\ ~(ckptFile.exists /\ ckptFile.parses /\
       to_process[1].stem \in DOMAIN ckptFile.value.meshes.results)

\* C18: a wait that has begun ends (the job is reported done, or the bounded
\* wait has elapsed whatever the polls returned) unless the process is killed;
\* when it ends the harvest is the next step of the item; no step of the wait
\* ends the item or changes its outcome.
C18_WaitReturns ==
  /\ [][pc = "poll" =>
          /\ pc' \in {"poll", "harvest", "off"}
          /\ pc' # "off" =>
               (idx' = idx /\ okStems' = okStems /\ failedSubmit' = failedSubmit)
       ]_vars
  /\ (pc = "poll") ~> (pc \in {"harvest", "off"})

\* C18 witness: the wait timed out and the harvest that followed found the
\* item's output
C18_Witness ==
  /\ pc = "record"
  /\ polls = MaxPolls
  /\ PathExists(out_path, outFiles)

\* C20: from the call of process_one to its return of None no step but a kill
\* changes the checkpoint, in memory or on disk; under force_regenerate the
\* entry of the failed item is the one the run began with.
C20_FailureLeavesCheckpoint ==
  [][(pc \in {"item", "staged", "poll", "harvest"} /\ pc' # "off") =>
       (state' = state /\ ckptFile' = ckptFile)]_vars

\* C20 witness: under force_regenerate an item that was complete when the run
\* began has failed, and its entry is still there, in memory and on disk
C20_Witness ==
  /\ pc = "item"
  /\ force_regenerate
  /\ \E s \in failedSubmit \cap validAtStart :
       /\ s \notin okStems
       /\ IsMeshComplete(state, s, outFiles)
       /\ ckptFile.exists /\ ckptFile.parses
       /\ IsMeshComplete(ckptFile.value, s, outFiles)

\* the completed list has no duplicate and lists exactly the keys of results
DocConsistent(st) ==
  WellShaped(st) =>
    /\ \A i, j \in DOMAIN st.meshes.completed :
         st.meshes.completed[i] = st.meshes.completed[j] => i = j
    /\ Range(st.meshes.completed) = DOMAIN st.meshes.results

\* C21: from the empty document, through constructions, set_mesh_result and
\* validate_and_cleanup_results calls, saves, kills and reloads, the completed
\* list has no duplicate and lists exactly the keys of results; after a
\* validate_and_cleanup_results, the same call again returns 0 and changes nothing.
C21_DocumentConsistent ==
  /\ DocConsistent(state)
  /\ [][/\ DocConsistent(state')
        /\ (StoreValidate /\ WellShaped(state)) =>
             ValidateAndCleanup(state', outFiles') =
               [state |-> state', removed |-> 0]
       ]_vars

\* C21 witness: a validate_and_cleanup_results has just evicted one of two
\* entries and the other is still listed
C21_Witness ==
  /\ pc = "ready"
  /\ removed = 1
  /\ Len(state.meshes.completed) = 1
  /\ DOMAIN state.meshes.results = Range(state.meshes.completed)

\* C22 (as claimed): the harvests of two items with different identifiers
\* write disjoint sets of output file names.
C22_NoCollision ==
  \A s, t \in DOMAIN harvested :
    s # t => harvested[s] \cap harvested[t] = {}

====
